---- MODULE Spec2Model ----
(***************************************************************************)
(* The OWL viewer of owl-viewer/src/App.tsx: parseOWL builds the class     *)
(* map and the root list from a document, the component keeps the loaded   *)
(* index with its presentation state, and getChildNodes / hasMatchingChild *)
(* query the index.                                                        *)
(*                                                                         *)
(* A string is a sequence of one-character strings.  An optional value     *)
(* (null in the source) is a sequence of length 0 or 1.  A document is the *)
(* sequence of its owl:Class elements in document order, each with its     *)
(* rdf:about and rdf:ID attributes, the text of its first rdfs:label and   *)
(* rdfs:comment descendants and the rdf:resource attributes of its         *)
(* rdfs:subClassOf descendants.                                            *)
(***************************************************************************)
EXTENDS Integers, Sequences, FiniteSets, TLC

\* The component's state (file, ontologyData, searchTerm, selectedNode,
\* expandedNodes, rootNodes), whether it is still mounted, the number of
\* FileReaders that are reading, the text and the count (up to 2) of the
\* reads that have completed, and the last query call with its outcome.
VARIABLES file, readers, result, loads, ontologyData, rootNodes,
          expandedNodes, selectedNode, searchTerm, mounted, call

vars == <<file, readers, result, loads, ontologyData, rootNodes,
          expandedNodes, selectedNode, searchTerm, mounted, call>>

\* ------------------------------------------------------------------ values

\* null (an absent attribute, element or state value) and a present value.
Null == <<>>

Some(x) == <<x>>

IsNull(o) == Len(o) = 0

\* ----------------------------------------------------------------- strings

LowerCase ==
    <<"a", "b", "c", "d", "e", "f", "g", "h", "i", "j", "k", "l", "m", "n",
      "o", "p", "q", "r", "s", "t", "u", "v", "w", "x", "y", "z">>

UpperCase ==
    <<"A", "B", "C", "D", "E", "F", "G", "H", "I", "J", "K", "L", "M", "N",
      "O", "P", "Q", "R", "S", "T", "U", "V", "W", "X", "Y", "Z">>

Range(s) == {s[i] : i \in 1..Len(s)}

\* The lower case form of every upper case letter.
LowerOf ==
    [c \in Range(UpperCase) |->
        LowerCase[CHOOSE i \in 1..Len(UpperCase) : UpperCase[i] = c]]

\* String.prototype.toLowerCase, one character.
toLowerChar(c) == IF c \in DOMAIN LowerOf THEN LowerOf[c] ELSE c

\* String.prototype.toLowerCase.
toLowerCase(s) == [i \in 1..Len(s) |-> toLowerChar(s[i])]

\* String.prototype.includes: t occurs in s as a contiguous substring.
includes(s, t) ==
    \E i \in 0..(Len(s) - Len(t)) : SubSeq(s, i + 1, i + Len(t)) = t

\* String.prototype.split(sep).pop(): the segment after the last sep, the
\* whole string when sep does not occur.
splitPop(s, sep) ==
    LET at == {i \in 1..Len(s) : s[i] = sep}
    IN  IF at = {} THEN s
        ELSE SubSeq(s, (CHOOSE i \in at : \A j \in at : j <= i) + 1, Len(s))

\* The collation of String.prototype.localeCompare on this alphabet: the
\* primary weight of a character (punctuation before letters, a letter's
\* weight that of its lower case form) and its case weight.
LetterWeight ==
    [c \in Range(LowerCase) |->
        2 + (CHOOSE i \in 1..Len(LowerCase) : LowerCase[i] = c)]

primaryWeight(c) ==
    IF c = "/" THEN 1
    ELSE IF c = "#" THEN 2
    ELSE LetterWeight[toLowerChar(c)]

caseWeight(c) == IF toLowerChar(c) = c THEN 0 ELSE 1

\* Lexicographic comparison of two sequences of weights: -1, 0 or 1.
RECURSIVE compareWeights(_, _)
compareWeights(u, v) ==
    IF Len(u) = 0 /\ Len(v) = 0 THEN 0
    ELSE IF Len(u) = 0 THEN -1
    ELSE IF Len(v) = 0 THEN 1
    ELSE IF u[1] < v[1] THEN -1
    ELSE IF u[1] > v[1] THEN 1
    ELSE compareWeights(Tail(u), Tail(v))

\* a.localeCompare(b): primary weights decide; case breaks a primary tie,
\* lower case first; 0 only for equal strings.
localeCompare(a, b) ==
    LET p == compareWeights([i \in 1..Len(a) |-> primaryWeight(a[i])],
                            [i \in 1..Len(b) |-> primaryWeight(b[i])])
    IN  IF p # 0 THEN p
        ELSE compareWeights([i \in 1..Len(a) |-> caseWeight(a[i])],
                            [i \in 1..Len(b) |-> caseWeight(b[i])])

\* insertByLabel putting x in front of the elements it ties with.
RECURSIVE insertByLabelUnstable(_, _)
insertByLabelUnstable(sorted, x) ==
    IF Len(sorted) = 0 THEN <<x>>
    ELSE IF localeCompare(sorted[Len(sorted)].label, x.label) < 0
         THEN Append(sorted, x)
         ELSE Append(insertByLabelUnstable(SubSeq(sorted, 1, Len(sorted) - 1), x),
                     sorted[Len(sorted)])

\* Array.prototype.sort((a, b) => a.label.localeCompare(b.label)): a stable
\* sort; insert puts x behind every element that does not compare greater.
RECURSIVE insertByLabel(_, _)
insertByLabel(sorted, x) ==
    IF Len(sorted) = 0 THEN <<x>>
    ELSE IF localeCompare(sorted[Len(sorted)].label, x.label) <= 0
         THEN Append(sorted, x)
         ELSE Append(insertByLabel(SubSeq(sorted, 1, Len(sorted) - 1), x),
                     sorted[Len(sorted)])

RECURSIVE sortByLabel(_)
sortByLabel(s) ==
    IF Len(s) = 0 THEN <<>>
    ELSE insertByLabel(sortByLabel(SubSeq(s, 1, Len(s) - 1)), s[Len(s)])

\* ---------------------------------------------------------------- parseOWL

\* a || b on optional strings: a when it is present and non-empty, else b.
orElse(a, b) == IF ~IsNull(a) /\ a[1] # <<>> THEN a ELSE b

\* cls.getAttribute('rdf:about') || cls.getAttribute('rdf:ID')
classId(cls) == orElse(cls.about, cls.rdfID)

\* fallbackLabel splitting on '/' alone.
fallbackLabelSlashOnly(id) ==
    LET seg == splitPop(id, "/")
    IN  IF seg # <<>> THEN seg ELSE id

\* id.split('#').pop()?.split('/').pop() || id
fallbackLabel(id) ==
    LET seg == splitPop(splitPop(id, "#"), "/")
    IN  IF seg # <<>> THEN seg ELSE id

\* cls.getElementsByTagName('rdfs:label')[0]?.textContent || <fallback>
classLabel(cls, id) ==
    IF ~IsNull(cls.label) /\ cls.label[1] # <<>> THEN cls.label[1]
    ELSE fallbackLabel(id)

\* cls.getElementsByTagName('rdfs:comment')[0]?.textContent || ''
classDescription(cls) ==
    IF ~IsNull(cls.comment) THEN cls.comment[1] ELSE <<>>

\* Map.prototype.get(key) || [] on a map from strings to string arrays.
getOrEmpty(map, key) == IF key \in DOMAIN map THEN map[key] ELSE <<>>

\* if (!map.has(key)) map.set(key, []); map.get(key).push(value)
pushTo(map, key, value) ==
    [k \in DOMAIN map \cup {key} |->
        IF k = key THEN Append(getOrEmpty(map, key), value) ELSE map[k]]

\* The position of id among the keys of a class map (a Map iterates in the
\* order of first insertion), 0 when it is not a key.
indexOfId(classMap, id) ==
    IF \E i \in 1..Len(classMap) : classMap[i].id = id
    THEN CHOOSE i \in 1..Len(classMap) : classMap[i].id = id
    ELSE 0

\* classMap.set(id, node): a new key goes last, an old key keeps its place
\* and gets the new value.
mapSet(classMap, node) ==
    LET i == indexOfId(classMap, node.id)
    IN  IF i = 0 THEN Append(classMap, node)
        ELSE [classMap EXCEPT ![i] = node]

\* classMap.get(id) as an optional value.
mapGet(classMap, id) ==
    LET i == indexOfId(classMap, id)
    IN  IF i = 0 THEN Null ELSE Some(classMap[i])

\* The inner loop over the rdfs:subClassOf elements of the class id: each
\* element with a non-empty rdf:resource is pushed onto both edge maps.
RECURSIVE recordEdges(_, _, _)
recordEdges(acc, id, subClassOf) ==
    IF Len(subClassOf) = 0 THEN acc
    ELSE LET parent == subClassOf[1]
             next == IF ~IsNull(parent) /\ parent[1] # <<>>
                     THEN [acc EXCEPT
                             !.parentChildMap = pushTo(@, parent[1], id),
                             !.childParentMap = pushTo(@, id, parent[1])]
                     ELSE acc
         IN  recordEdges(next, id, Tail(subClassOf))

\* scanClass starting the parents of a class anew at each of its
\* declarations.
scanClassResettingParents(acc, cls) ==
    LET id == classId(cls)
    IN  IF IsNull(id) \/ id[1] = <<>> THEN acc
        ELSE recordEdges(
                 [acc EXCEPT
                     !.classMap =
                         mapSet(@, [id |-> id[1],
                                    label |-> classLabel(cls, id[1]),
                                    description |-> classDescription(cls),
                                    children |-> <<>>,
                                    parents |-> <<>>]),
                     !.childParentMap =
                         [k \in DOMAIN @ \ {id[1]} |-> @[k]]],
                 id[1], cls.subClassOf)

\* One iteration of the loop over owlClasses: a class without an id is
\* skipped; otherwise its node is set in the class map with empty children
\* and parents and its edges are recorded.
scanClass(acc, cls) ==
    LET id == classId(cls)
    IN  IF IsNull(id) \/ id[1] = <<>> THEN acc
        ELSE recordEdges(
                 [acc EXCEPT !.classMap =
                     mapSet(@, [id |-> id[1],
                                label |-> classLabel(cls, id[1]),
                                description |-> classDescription(cls),
                                children |-> <<>>,
                                parents |-> <<>>])],
                 id[1], cls.subClassOf)

RECURSIVE scanClasses(_, _)
scanClasses(acc, owlClasses) ==
    IF Len(owlClasses) = 0 THEN acc
    ELSE scanClasses(scanClass(acc, owlClasses[1]), Tail(owlClasses))

\* classMap.forEach: node.children = parentChildMap.get(id) || [] and
\* node.parents = childParentMap.get(id) || [].
buildArrays(acc) ==
    [i \in 1..Len(acc.classMap) |->
        [acc.classMap[i] EXCEPT
            !.children = getOrEmpty(acc.parentChildMap, acc.classMap[i].id),
            !.parents = getOrEmpty(acc.childParentMap, acc.classMap[i].id)]]

\* The number of classes the fallback root list is cut to: slice(0, 10).
FallbackRoots == 10

hasNoParents(node) == Len(node.parents) = 0

\* sortedRoots without the fallback.
sortedRootsNoFallback(classMap) ==
    sortByLabel(SelectSeq(classMap, hasNoParents))

\* sortedRoots with the fallback list cut after it is sorted.
sortedRootsSortThenSlice(classMap) ==
    LET roots == SelectSeq(classMap, hasNoParents)
        sorted == sortByLabel(classMap)
    IN  IF Len(roots) > 0 THEN sortByLabel(roots)
        ELSE SubSeq(sorted, 1, IF Len(sorted) < FallbackRoots
                               THEN Len(sorted) ELSE FallbackRoots)

\* The nodes without parents in map order, sorted by label; when there are
\* none, the first FallbackRoots values of the map, sorted by label.
sortedRoots(classMap) ==
    LET roots == SelectSeq(classMap, hasNoParents)
    IN  IF Len(roots) > 0 THEN sortByLabel(roots)
        ELSE sortByLabel(SubSeq(classMap, 1,
                 IF Len(classMap) < FallbackRoots THEN Len(classMap)
                 ELSE FallbackRoots))

parseOWL(xmlDoc) ==
    LET scanned == scanClasses([classMap |-> <<>>,
                                parentChildMap |-> <<>>,
                                childParentMap |-> <<>>], xmlDoc)
        classMap == buildArrays(scanned)
    IN  [classMap |-> classMap, roots |-> sortedRoots(classMap)]

\* ------------------------------------------------------------- getChildNodes

\* classMap.get(childId) for each id of ids, the undefined results dropped.
RECURSIVE resolveAll(_, _)
resolveAll(classMap, ids) ==
    IF Len(ids) = 0 THEN <<>>
    ELSE mapGet(classMap, ids[1]) \o resolveAll(classMap, Tail(ids))

\* getChildNodes(nodeId) on the state data (null or a loaded index).
getChildNodes(data, nodeId) ==
    IF IsNull(data) THEN <<>>
    ELSE LET node == mapGet(data[1].classMap, nodeId)
         IN  IF IsNull(node) THEN <<>>
             ELSE sortByLabel(resolveAll(data[1].classMap, node[1].children))

\* ---------------------------------------------------------- hasMatchingChild

\* The depth of nested calls at which the engine's call stack is exhausted
\* and the call throws a RangeError.
StackLimit == 6

\* labelMatches without the two toLowerCase calls.
labelMatchesCaseSensitive(node, term) == includes(node.label, term)

\* node.label.toLowerCase().includes(term.toLowerCase())
labelMatches(node, term) ==
    includes(toLowerCase(node.label), toLowerCase(term))

\* hasMatchingChild(nodeId, term) entered at call depth `depth`: "true" or
\* "false" when the call returns, "RangeError" when the recursion exhausts
\* the call stack.  someChild is children.some(...) from position i on: the
\* first child that returns true ends it, a throwing child throws.
RECURSIVE hasMatchingChildAt(_, _, _, _)
RECURSIVE someChild(_, _, _, _, _)
hasMatchingChildAt(data, nodeId, term, depth) ==
    IF depth > StackLimit THEN "RangeError"
    ELSE IF IsNull(data) THEN "false"
    ELSE LET node == mapGet(data[1].classMap, nodeId)
         IN  IF IsNull(node) THEN "false"
             ELSE IF labelMatches(node[1], term) THEN "true"
             ELSE someChild(data, node[1].children, 1, term, depth)

someChild(data, children, i, term, depth) ==
    IF i > Len(children) THEN "false"
    ELSE LET r == hasMatchingChildAt(data, children[i], term, depth + 1)
         IN  IF r = "false" THEN someChild(data, children, i + 1, term, depth)
             ELSE r

hasMatchingChild(data, nodeId, term) ==
    hasMatchingChildAt(data, nodeId, term, 1)

\* ------------------------------------------------------------------- render

\* filteredRootNodes for the state (data, roots, term): with a search term,
\* the roots whose label matches or for which hasMatchingChild returns
\* true; threw when a call throws.
filteredRootNodes(data, roots, term) ==
    LET verdict(node) ==
            IF labelMatches(node, term) THEN "true"
            ELSE hasMatchingChild(data, node.id, term)
        keep(node) == verdict(node) = "true"
    IN  IF term = <<>> THEN [threw |-> FALSE, nodes |-> roots]
        ELSE [threw |-> \E i \in 1..Len(roots) :
                           verdict(roots[i]) = "RangeError",
              nodes |-> SelectSeq(roots, keep)]

\* renderTreeNode(node, depth): the ids of the tree rows it renders, the
\* children of an expanded node with children below it; threw when the
\* recursion exhausts the call stack.
RECURSIVE renderTreeNode(_, _, _, _)
renderTreeNode(data, expanded, node, depth) ==
    IF depth > StackLimit THEN [threw |-> TRUE, ids |-> {}]
    ELSE IF node.id \in expanded /\ Len(node.children) > 0
    THEN LET below == {renderTreeNode(data, expanded, c, depth + 1) :
                          c \in Range(getChildNodes(data, node.id))}
         IN  [threw |-> \E b \in below : b.threw,
              ids |-> {node.id} \cup UNION {b.ids : b \in below}]
    ELSE [threw |-> FALSE, ids |-> {node.id}]

\* The tree view of the state (data, roots, expanded, term): every filtered
\* root rendered at depth 0.
treeView(data, roots, expanded, term) ==
    LET filtered == filteredRootNodes(data, roots, term)
        shown == {renderTreeNode(data, expanded, n, 1) :
                     n \in Range(filtered.nodes)}
    IN  IF IsNull(data) THEN [threw |-> FALSE, ids |-> {}]
        ELSE IF filtered.threw THEN [threw |-> TRUE, ids |-> {}]
        ELSE [threw |-> \E r \in shown : r.threw,
              ids |-> UNION {r.ids : r \in shown}]

\* The render that follows a state update: an error thrown while rendering
\* unmounts the component, and an unmounted component handles no event and
\* takes no state update.
rendered(data, roots, expanded, term) ==
    ~treeView(data, roots, expanded, term).threw

\* --------------------------------------------------------------- documents

\* An owl:Class element with rdf:about id, the given optional label text
\* and one rdfs:subClassOf element per entry of parents.
Cls(id, label, parents) ==
    [about |-> Some(id), rdfID |-> Null, label |-> label, comment |-> Null,
     subClassOf |-> [i \in 1..Len(parents) |-> Some(parents[i])]]

\* An owl:Class element with neither rdf:about nor rdf:ID.
Anonymous(parents) ==
    [about |-> Null, rdfID |-> Null, label |-> Null, comment |-> Null,
     subClassOf |-> [i \in 1..Len(parents) |-> Some(parents[i])]]

IdA == <<"a">>

IdB == <<"B">>

IdC == <<"x", "/", "a">>

IdD == <<"y", "#", "B">>

IdU == <<"u">>

GraphIds == {IdA, IdB, IdC}

\* The largest number of owl:Class elements of an enumerated document and
\* the largest number of rdfs:subClassOf elements in it.
MaxDecls == 3

MaxEdges == 2

\* The sequences of exactly k identifiers of GraphIds.
RECURSIVE ParentLists(_)
ParentLists(k) ==
    IF k = 0 THEN {<<>>}
    ELSE {Append(ps, p) : ps \in ParentLists(k - 1), p \in GraphIds}

\* The parent lists of n classes with at most e parents between them.
RECURSIVE ParentTuples(_, _)
ParentTuples(n, e) ==
    IF n = 0 THEN {<<>>}
    ELSE UNION {{Append(t, ps) : t \in ParentTuples(n - 1, e - k),
                                 ps \in ParentLists(k)} : k \in 0..e}

\* The rdf:about of an enumerated class: an identifier of GraphIds or none.
AboutOptions == {Some(id) : id \in GraphIds} \cup {Null}

\* The document whose i-th class has rdf:about abouts[i], no label and the
\* parents parents[i].
GraphDoc(abouts, parents) ==
    [i \in 1..Len(abouts) |->
        [about |-> abouts[i], rdfID |-> Null, label |-> Null,
         comment |-> Null,
         subClassOf |-> [j \in 1..Len(parents[i]) |-> Some(parents[i][j])]]]

\* Every document of at most MaxDecls classes and MaxEdges subclass edges.
GraphDocs ==
    UNION {{GraphDoc(abouts, parents) :
               abouts \in [1..n -> AboutOptions],
               parents \in ParentTuples(n, MaxEdges)} : n \in 0..MaxDecls}

\* One class with every combination of present, empty and absent rdf:about,
\* rdf:ID, rdfs:label, rdfs:comment and rdf:resource.
AttrDocs ==
    {<<[about |-> a, rdfID |-> r, label |-> l, comment |-> c, subClassOf |-> s]>> :
        a \in {Null, Some(<<>>), Some(IdA)},
        r \in {Null, Some(<<>>), Some(IdD)},
        l \in {Null, Some(<<>>), Some(<<"A", "b">>)},
        c \in {Null, Some(<<>>), Some(<<"d">>)},
        s \in {<<>>, <<Null>>, <<Some(<<>>)>>, <<Some(IdA), Null, Some(IdB)>>}}

\* The longest identifier of a document enumerated for its fallback label.
MaxIdLen == 4

IdChars == {"a", "B", "#", "/"}

RECURSIVE StringsOf(_)
StringsOf(n) ==
    IF n = 0 THEN {<<>>}
    ELSE {Append(s, c) : s \in StringsOf(n - 1), c \in IdChars}

\* One class without a label element, its identifier any string of IdChars.
LabelDocs ==
    {<<Cls(id, Null, <<>>)>> : id \in UNION {StringsOf(n) : n \in 1..MaxIdLen}}

\* How far the rings of classes go beyond the FallbackRoots classes the
\* fallback root list is cut to.
MaxExtra == 2

\* The identifier of the i-th class of a ring; its fallback label is the
\* i-th letter from the end of the first MaxRing letters, so that labels
\* fall as the declarations go.
RingId(i) == <<"r", "/", LowerCase[FallbackRoots + MaxExtra + 1 - i]>>

\* n classes, each a subclass of the next and the last of the first, the
\* declarations starting at class first: no class is without a parent.
RingDoc(n, first) ==
    [k \in 1..n |->
        LET i == ((first + k - 2) % n) + 1
        IN  Cls(RingId(i), Null, <<RingId((i % n) + 1)>>)]

RingDocs ==
    {RingDoc(n, first) :
        n \in (FallbackRoots - 1)..(FallbackRoots + MaxExtra), first \in 1..3}

ParseDocs == GraphDocs \cup AttrDocs \cup LabelDocs \cup RingDocs

\* The documents loaded into the viewer.
EmptyDoc == <<>>

\* a with the children B "b", x/a "Ab" and y#B "b", in that order.
TreeDoc ==
    <<Cls(IdA, Null, <<>>), Cls(IdB, Some(<<"b">>), <<IdA>>),
      Cls(IdC, Some(<<"A", "b">>), <<IdA>>), Cls(IdD, Some(<<"b">>), <<IdA>>)>>

\* x/a "Ab" under B under a, each declared before its parent.
ChainDoc ==
    <<Cls(IdC, Some(<<"A", "b">>), <<IdB>>), Cls(IdB, Null, <<IdA>>),
      Cls(IdA, Null, <<>>)>>

\* a and B, each the parent of the other.
CycleDoc == <<Cls(IdA, Null, <<IdB>>), Cls(IdB, Null, <<IdA>>)>>

\* a, its own parent.
SelfLoopDoc == <<Cls(IdA, Null, <<IdA>>), Cls(IdB, Null, <<>>)>>

\* The root a above the cycle of B and x/a "Ab".
RootedCycleDoc ==
    <<Cls(IdA, Null, <<>>), Cls(IdB, Null, <<IdA, IdC>>),
      Cls(IdC, Some(<<"A", "b">>), <<IdB>>)>>

\* B names its parent a in two subclass edges.
DuplicateEdgeDoc == <<Cls(IdA, Null, <<>>), Cls(IdB, Null, <<IdA, IdA>>)>>

\* B is declared twice, each time under a.
RedeclaredDoc ==
    <<Cls(IdA, Null, <<>>), Cls(IdB, Some(<<"b">>), <<IdA>>),
      Cls(IdB, Some(<<"A", "b">>), <<IdA>>)>>

\* The only parent of a is never declared.
UndeclaredParentDoc == <<Cls(IdA, Null, <<IdU>>), Cls(IdB, Null, <<IdA>>)>>

\* A class without identifier, then y#B by its rdf:ID with a comment.
AnonymousDoc ==
    <<Anonymous(<<IdA>>),
      [about |-> Null, rdfID |-> Some(IdD), label |-> Null,
       comment |-> Some(<<"d">>), subClassOf |-> <<Null>>]>>

\* x/a under both a and B, B under a.
DiamondDoc ==
    <<Cls(IdA, Null, <<>>), Cls(IdB, Null, <<IdA>>),
      Cls(IdC, Null, <<IdA, IdB>>)>>

ViewerDocs ==
    {EmptyDoc, TreeDoc, ChainDoc, CycleDoc, SelfLoopDoc, RootedCycleDoc,
     DuplicateEdgeDoc, RedeclaredDoc, UndeclaredParentDoc, AnonymousDoc,
     DiamondDoc}

\* The search terms typed: none, one that matches "Ab" alone, one that
\* matches every label with a b, one that matches no label.
Terms == {<<>>, <<"a", "B">>, <<"b">>, <<"c">>}

\* The largest number of FileReaders reading at the same time.
MaxReaders == 1

\* ------------------------------------------------------------------- state

NoCall == [op |-> "none"]

\* The last step was the onload of a FileReader.
Loaded == [op |-> "onload"]

Init ==
    /\ file = Null
    /\ readers = 0
    /\ result = Null
    /\ loads = 0
    /\ ontologyData = Null
    /\ rootNodes = <<>>
    /\ expandedNodes = {}
    /\ selectedNode = Null
    /\ searchTerm = <<>>
    /\ mounted = TRUE
    /\ call = NoCall

\* handleFileUpload with a file chosen: the file is set and a new
\* FileReader starts reading it.
handleFileUpload ==
    /\ mounted
    /\ readers < MaxReaders
    /\ file' = Some("File")
    /\ readers' = readers + 1
    /\ call' = NoCall
    /\ UNCHANGED <<result, loads, ontologyData, rootNodes, expandedNodes,
                   selectedNode, searchTerm, mounted>>

\* onload without setExpandedNodes(new Set()) and setSelectedNode(null).
onloadKeepingSelection(xmlText) ==
    /\ mounted
    /\ readers > 0
    /\ LET parsed == parseOWL(xmlText)
       IN  /\ ontologyData' = Some(parsed)
           /\ rootNodes' = parsed.roots
           /\ mounted' = rendered(Some(parsed), parsed.roots, expandedNodes,
                                  searchTerm)
    /\ readers' = readers - 1
    /\ result' = Some(xmlText)
    /\ loads' = IF loads < 2 THEN loads + 1 ELSE loads
    /\ call' = Loaded
    /\ UNCHANGED <<file, searchTerm, expandedNodes, selectedNode>>

\* reader.onload of a reader whose read gave xmlText: the text is parsed
\* and the four state updates are applied in one batch.
onload(xmlText) ==
    /\ mounted
    /\ readers > 0
    /\ LET parsed == parseOWL(xmlText)
       IN  /\ ontologyData' = Some(parsed)
           /\ rootNodes' = parsed.roots
           /\ mounted' = rendered(Some(parsed), parsed.roots, {}, searchTerm)
    /\ expandedNodes' = {}
    /\ selectedNode' = Null
    /\ readers' = readers - 1
    /\ result' = Some(xmlText)
    /\ loads' = IF loads < 2 THEN loads + 1 ELSE loads
    /\ call' = Loaded
    /\ UNCHANGED <<file, searchTerm>>

\* The search input's onChange.
setSearchTerm(term) ==
    /\ mounted
    /\ term # searchTerm
    /\ searchTerm' = term
    /\ mounted' = rendered(ontologyData, rootNodes, expandedNodes, term)
    /\ call' = NoCall
    /\ UNCHANGED <<file, readers, result, loads, ontologyData, rootNodes,
                   expandedNodes, selectedNode>>

\* toggleNode(nodeId) on the expanded set.
toggleNode(expanded, nodeId) ==
    IF nodeId \in expanded THEN expanded \ {nodeId} ELSE expanded \cup {nodeId}

\* The state update of every handler that sets the expanded set and the
\* selected node, and the render that follows it.
setExpandedAndSelected(expanded, selected) ==
    /\ expandedNodes' = expanded
    /\ selectedNode' = selected
    /\ mounted' = rendered(ontologyData, rootNodes, expanded, searchTerm)
    /\ call' = NoCall
    /\ UNCHANGED <<file, readers, result, loads, ontologyData, rootNodes,
                   searchTerm>>

\* clickTreeNode toggling the node whether or not it has children.
clickTreeNodeAlwaysToggling(nodeId) ==
    /\ mounted
    /\ LET node == mapGet(ontologyData[1].classMap, nodeId)[1]
       IN  setExpandedAndSelected(toggleNode(expandedNodes, nodeId),
                                  Some(node))

\* onClick of the tree row of the class nodeId: the node is selected and,
\* when it has children, toggled.
clickTreeNode(nodeId) ==
    /\ mounted
    /\ LET node == mapGet(ontologyData[1].classMap, nodeId)[1]
       IN  setExpandedAndSelected(
               IF Len(node.children) > 0
               THEN toggleNode(expandedNodes, nodeId) ELSE expandedNodes,
               Some(node))

\* expandAll: the ids of the classes with children.  The button is shown
\* when an index is loaded.
expandAll ==
    /\ mounted
    /\ ~IsNull(ontologyData)
    /\ setExpandedAndSelected(
           {ontologyData[1].classMap[i].id :
               i \in {j \in 1..Len(ontologyData[1].classMap) :
                         Len(ontologyData[1].classMap[j].children) > 0}},
           selectedNode)

collapseAll ==
    /\ mounted
    /\ ~IsNull(ontologyData)
    /\ setExpandedAndSelected({}, selectedNode)

\* The number of child buttons the details panel shows: slice(0, 10).
DetailsChildren == 10

\* The parent buttons of the details panel: the parents of the selected
\* node that resolve, sorted by label.
parentButtons ==
    IF IsNull(ontologyData) \/ IsNull(selectedNode) THEN <<>>
    ELSE sortByLabel(resolveAll(ontologyData[1].classMap,
                                selectedNode[1].parents))

\* The child buttons: the first DetailsChildren resolved children of the
\* selected node, sorted by label.
childButtons ==
    IF IsNull(ontologyData) \/ IsNull(selectedNode) THEN <<>>
    ELSE LET sorted == sortByLabel(resolveAll(ontologyData[1].classMap,
                                              selectedNode[1].children))
         IN  SubSeq(sorted, 1, IF Len(sorted) < DetailsChildren
                               THEN Len(sorted) ELSE DetailsChildren)

\* onClick of the i-th parent button: the parent is selected and expanded.
clickParent(i) ==
    /\ mounted
    /\ i \in 1..Len(parentButtons)
    /\ setExpandedAndSelected(expandedNodes \cup {parentButtons[i].id},
                              Some(parentButtons[i]))

\* onClick of the i-th child button: the child is selected and the node
\* that was selected is expanded.
clickChild(i) ==
    /\ mounted
    /\ i \in 1..Len(childButtons)
    /\ setExpandedAndSelected(expandedNodes \cup {selectedNode[1].id},
                              Some(childButtons[i]))

\* getChildNodes sorting node.children itself instead of a copy.
callGetChildNodesSortingInPlace(nodeId) ==
    /\ mounted
    /\ call' = [op |-> "getChildNodes", nodeId |-> nodeId,
                result |-> getChildNodes(ontologyData, nodeId)]
    /\ ontologyData' =
           IF IsNull(ontologyData) THEN ontologyData
           ELSE IF indexOfId(ontologyData[1].classMap, nodeId) = 0
           THEN ontologyData
           ELSE LET sorted == getChildNodes(ontologyData, nodeId)
                IN  Some([ontologyData[1] EXCEPT
                        !.classMap[indexOfId(ontologyData[1].classMap,
                                             nodeId)].children =
                            [k \in 1..Len(sorted) |-> sorted[k].id]])
    /\ UNCHANGED <<mounted, file, readers, result, loads, rootNodes,
                   expandedNodes, selectedNode, searchTerm>>

\* A call of getChildNodes(nodeId) on the current state, its result kept.
callGetChildNodes(nodeId) ==
    /\ mounted
    /\ call' = [op |-> "getChildNodes", nodeId |-> nodeId,
                result |-> getChildNodes(ontologyData, nodeId)]
    /\ UNCHANGED <<mounted, file, readers, result, loads, ontologyData,
                   rootNodes, expandedNodes, selectedNode, searchTerm>>

\* A call of hasMatchingChild(nodeId, term) on the current state, its
\* outcome kept.
callHasMatchingChild(nodeId, term) ==
    /\ mounted
    /\ call' = [op |-> "hasMatchingChild", nodeId |-> nodeId, term |-> term,
                result |-> hasMatchingChild(ontologyData, nodeId, term)]
    /\ UNCHANGED <<mounted, file, readers, result, loads, ontologyData,
                   rootNodes, expandedNodes, selectedNode, searchTerm>>

\* The identifiers the queries are called with: the keys of the loaded
\* class map and IdU, which no document declares.
QueryIds ==
    {IdU} \cup (IF IsNull(ontologyData) THEN {}
                ELSE {ontologyData[1].classMap[i].id :
                         i \in 1..Len(ontologyData[1].classMap)})

Next ==
    \/ handleFileUpload
    \/ \E xmlText \in ViewerDocs : onload(xmlText)
    \/ \E term \in Terms : setSearchTerm(term)
    \/ \E nodeId \in treeView(ontologyData, rootNodes, expandedNodes, searchTerm).ids :
           clickTreeNode(nodeId)
    \/ expandAll
    \/ collapseAll
    \/ \E i \in 1..Len(parentButtons) : clickParent(i)
    \/ \E i \in 1..Len(childButtons) : clickChild(i)
    \/ \E nodeId \in QueryIds : callGetChildNodes(nodeId)
    \/ \E nodeId \in QueryIds, term \in Terms :
           callHasMatchingChild(nodeId, term)

Spec == Init /\ [][Next]_vars

\* parseOWL alone: one document of ParseDocs is uploaded and read.
NextParse ==
    \/ IsNull(file) /\ handleFileUpload
    \/ \E xmlText \in ParseDocs : onload(xmlText)

SpecParse == Init /\ [][NextParse]_vars

\* -------------------------------------------------------------- properties

\* The classes of the loaded index in map order, none when nothing is loaded.
classes == IF IsNull(ontologyData) THEN <<>> ELSE ontologyData[1].classMap

declared(id) == \E i \in 1..Len(classes) : classes[i].id = id

classOf(id) == classes[CHOOSE i \in 1..Len(classes) : classes[i].id = id]

\* The text of the last completed read.
loadedDoc == IF IsNull(result) THEN <<>> ELSE result[1]

\* The identifier of an owl:Class element as the document gives it:
\* rdf:about when that is present and not empty, else rdf:ID.
elementId(cls) ==
    IF cls.about # Null /\ cls.about # Some(<<>>) THEN cls.about ELSE cls.rdfID

hasId(cls) == elementId(cls) # Null /\ elementId(cls) # Some(<<>>)

\* C2: in every index returned by parse, for every class c and every
\* declared p among c.parents, c.id is among the children of p, and for
\* every declared ch among c.children, c.id is among the parents of ch.
InverseConsistency ==
    \A i \in 1..Len(classes) :
        /\ \A p \in Range(classes[i].parents) :
               declared(p) => classes[i].id \in Range(classOf(p).children)
        /\ \A ch \in Range(classes[i].children) :
               declared(ch) => classes[i].id \in Range(classOf(ch).parents)

\* A parsed document that declares an identifier twice and in which a
\* class has a parent declared after it and a parent never declared.
InverseConsistencyWitness ==
    /\ ~IsNull(ontologyData)
    /\ Len(classes) < Cardinality({k \in 1..Len(loadedDoc) : hasId(loadedDoc[k])})
    /\ \E i, j \in 1..Len(classes) :
           /\ i < j
           /\ classes[j].id \in Range(classes[i].parents)
           /\ \E u \in Range(classes[i].parents) : ~declared(u)

\* C3: the roots of a parsed index are not empty when its class map is not,
\* and every root is a class of the class map.
RootsNonEmpty ==
    ~IsNull(ontologyData) =>
        /\ Len(classes) > 0 => Len(ontologyData[1].roots) > 0
        /\ \A r \in Range(ontologyData[1].roots) :
               declared(r.id) /\ classOf(r.id) = r

\* A parsed index with classes, every one of them with a parent.
RootsNonEmptyWitness ==
    /\ ~IsNull(ontologyData)
    /\ Len(classes) > 0
    /\ \A i \in 1..Len(classes) : Len(classes[i].parents) > 0

\* The identifiers a document declares, in the order of their first
\* declaration.
RECURSIVE firstDeclared(_, _)
firstDeclared(doc, seen) ==
    IF Len(doc) = 0 THEN <<>>
    ELSE IF hasId(doc[1]) /\ elementId(doc[1])[1] \notin seen
         THEN <<elementId(doc[1])[1]>>
                  \o firstDeclared(Tail(doc), seen \cup {elementId(doc[1])[1]})
         ELSE firstDeclared(Tail(doc), seen)

\* s is in non-decreasing label order.
orderedByLabel(s) ==
    \A i, j \in 1..Len(s) :
        i < j => localeCompare(s[i].label, s[j].label) <= 0

\* C4: the roots are exactly the classes without parents, ordered by label;
\* when there is none, they are exactly the classes of the first
\* min(FallbackRoots, n) identifiers in declaration order, ordered by label.
RootsExact ==
    ~IsNull(ontologyData) =>
        LET roots == ontologyData[1].roots
            order == firstDeclared(loadedDoc, {})
            parentless == {i \in 1..Len(classes) : Len(classes[i].parents) = 0}
            cut == IF Len(order) < FallbackRoots THEN Len(order)
                   ELSE FallbackRoots
            expected == IF parentless # {}
                        THEN {classes[i] : i \in parentless}
                        ELSE {classOf(order[k]) : k \in 1..cut}
        IN  /\ Range(roots) = expected
            /\ Len(roots) = Cardinality(expected)
            /\ orderedByLabel(roots)

\* A parsed index of more than FallbackRoots classes, all with a parent,
\* whose roots are not in declaration order.
RootsExactWitness ==
    /\ ~IsNull(ontologyData)
    /\ Len(classes) > FallbackRoots
    /\ \A i \in 1..Len(classes) : Len(classes[i].parents) > 0
    /\ ontologyData[1].roots[1] # classes[1]

\* The last owl:Class element of the document that declares id.
lastDeclaration(doc, id) ==
    doc[CHOOSE k \in 1..Len(doc) :
            /\ elementId(doc[k]) = Some(id)
            /\ \A m \in (k + 1)..Len(doc) : elementId(doc[m]) # Some(id)]

isSeparator(c) == c = "#" \/ c = "/"

\* The segments of id between its '#' and '/' characters, as the pairs of
\* their first and last positions.
segments(id) ==
    {<<a, b>> \in (1..Len(id)) \X (1..Len(id)) :
        /\ a <= b
        /\ \A k \in a..b : ~isSeparator(id[k])
        /\ a = 1 \/ isSeparator(id[a - 1])
        /\ b = Len(id) \/ isSeparator(id[b + 1])}

\* The last segment of id that is not empty; id when there is none.
finalNonEmptySegment(id) ==
    IF segments(id) = {} THEN id
    ELSE LET last == CHOOSE p \in segments(id) :
                         \A q \in segments(id) : q[1] <= p[1]
         IN  SubSeq(id, last[1], last[2])

\* What follows the last '#' or '/' of id: all of id when it has neither,
\* the empty string when id ends in one.
trailingSegment(id) ==
    LET seps == {k \in 1..Len(id) : isSeparator(id[k])}
    IN  IF seps = {} THEN id
        ELSE SubSeq(id, (CHOOSE k \in seps : \A m \in seps : m <= k) + 1,
                    Len(id))

\* The classes of the loaded index whose declaration has no label element.
unlabelled ==
    {i \in 1..Len(classes) :
        IsNull(lastDeclaration(loadedDoc, classes[i].id).label)}

\* C7 as stated: a class without a label element gets the final non-empty
\* segment of its identifier split on '#' and '/', the identifier itself
\* only when no segment is non-empty.
LabelIsFinalNonEmptySegment ==
    \A i \in unlabelled :
        classes[i].label = finalNonEmptySegment(classes[i].id)

\* C7 amended: a class without a label element gets what follows the last
\* '#' or '/' of its identifier when that is not empty, and the identifier
\* itself otherwise.
LabelIsTrailingSegment ==
    \A i \in unlabelled :
        classes[i].label =
            IF trailingSegment(classes[i].id) # <<>>
            THEN trailingSegment(classes[i].id) ELSE classes[i].id

\* A class without a label element whose identifier ends in '/' behind a
\* non-empty segment.
LabelIsTrailingSegmentWitness ==
    \E i \in unlabelled :
        /\ Len(classes[i].id) > 1
        /\ classes[i].id[Len(classes[i].id)] = "/"
        /\ ~isSeparator(classes[i].id[Len(classes[i].id) - 1])
        /\ classes[i].label = classes[i].id

noRepeats(s) == \A i, j \in 1..Len(s) : s[i] = s[j] => i = j

\* C8: no identifier occurs twice in the children or in the parents of a
\* class of a parsed index.
EdgesAreSets ==
    \A i \in 1..Len(classes) :
        noRepeats(classes[i].children) /\ noRepeats(classes[i].parents)

\* The declared children of the class id.
childrenIds(id) == {d \in Range(classOf(id).children) : declared(d)}

\* The least set that holds ids and the declared children of its members.
RECURSIVE closure(_)
closure(ids) ==
    LET more == ids \cup UNION {childrenIds(c) : c \in ids}
    IN  IF more = ids THEN ids ELSE closure(more)

\* The classes reached from id over one or more children edges.
descendants(id) == closure(childrenIds(id))

\* No class is its own descendant.
acyclic == \A i \in 1..Len(classes) : classes[i].id \notin descendants(classes[i].id)

sameLetter(c, d) ==
    c = d \/ \E n \in 1..Len(LowerCase) : {c, d} = {LowerCase[n], UpperCase[n]}

\* term occurs in label, letters compared without regard to case.
occursIgnoringCase(label, term) ==
    \E i \in 0..(Len(label) - Len(term)) :
        \A k \in 1..Len(term) : sameLetter(label[i + k], term[k])

\* C1: every call of hasMatchingChild returns true or false, also on an
\* index whose children edges form a cycle.
SearchTerminates ==
    call.op = "hasMatchingChild" => call.result \in {"true", "false"}

\* C5: getChildNodes returns the classes of the declared identifiers among
\* the children of the class, in non-decreasing label order, those of equal
\* label in the order of the children list; nothing for an identifier that
\* is not declared or when no index is loaded.
ChildNodesExact ==
    call.op = "getChildNodes" =>
        IF ~declared(call.nodeId) THEN call.result = <<>>
        ELSE LET kids == classOf(call.nodeId).children
                 resolved == {k \in 1..Len(kids) : declared(kids[k])}
                 before(j, k) ==
                     LET c == localeCompare(classOf(kids[j]).label,
                                            classOf(kids[k]).label)
                     IN  c < 0 \/ (c = 0 /\ j < k)
                 place(k) == 1 + Cardinality({j \in resolved : before(j, k)})
             IN  /\ Len(call.result) = Cardinality(resolved)
                 /\ \A k \in resolved : call.result[place(k)] = classOf(kids[k])

\* A call that returned three or more classes, not in the order of the
\* children list, two of them with the same label.
ChildNodesExactWitness ==
    /\ call.op = "getChildNodes"
    /\ Len(call.result) > 2
    /\ [k \in 1..Len(call.result) |-> call.result[k].id]
           # classOf(call.nodeId).children
    /\ \E k \in 1..(Len(call.result) - 1) :
           /\ call.result[k].label = call.result[k + 1].label
           /\ call.result[k].id # call.result[k + 1].id

\* C6: on an index without a cycle hasMatchingChild returns true exactly
\* when the identifier is declared and the term occurs, case ignored, in
\* its label or in the label of one of its descendants.
SearchExact ==
    (call.op = "hasMatchingChild" /\ acyclic) =>
        call.result =
            IF /\ declared(call.nodeId)
               /\ \E c \in {call.nodeId} \cup descendants(call.nodeId) :
                      occursIgnoringCase(classOf(c).label, call.term)
            THEN "true" ELSE "false"

\* A call on an index without a cycle that returned true for a term which
\* differs in case from the one label it occurs in, that of a class two or
\* more edges below the class asked for.
SearchExactWitness ==
    /\ call.op = "hasMatchingChild"
    /\ acyclic
    /\ call.result = "true"
    /\ call.term # <<>>
    /\ \A c \in {call.nodeId} \cup childrenIds(call.nodeId) :
           ~occursIgnoringCase(classOf(c).label, call.term)
    /\ \A i \in 1..Len(classes) : ~includes(classes[i].label, call.term)

\* The state is that of a load that has just completed: the index is the
\* parse of the text read, every class and every edge of it is declared in
\* that text, the displayed roots are its roots, nothing is expanded and
\* nothing is selected.
freshlyLoaded ==
    /\ ~IsNull(result)
    /\ ontologyData = Some(parseOWL(loadedDoc))
    /\ \A i \in 1..Len(classes) :
           /\ \E k \in 1..Len(loadedDoc) :
                  elementId(loadedDoc[k]) = Some(classes[i].id)
           /\ \A p \in Range(classes[i].parents) :
                  \E k \in 1..Len(loadedDoc) :
                      /\ elementId(loadedDoc[k]) = Some(classes[i].id)
                      /\ Some(p) \in Range(loadedDoc[k].subClassOf)
           /\ \A ch \in Range(classes[i].children) :
                  \E k \in 1..Len(loadedDoc) :
                      /\ elementId(loadedDoc[k]) = Some(ch)
                      /\ Some(classes[i].id) \in Range(loadedDoc[k].subClassOf)
    /\ rootNodes = ontologyData[1].roots
    /\ expandedNodes = {}
    /\ IsNull(selectedNode)

\* C9: right after a load completes the class map and the displayed roots
\* come from the newly read text alone, the expanded set is empty and no
\* node is selected.
LoadDiscardsPrevious == call = Loaded => freshlyLoaded

\* The state right after the second load, of a document with classes.
LoadDiscardsPreviousWitness ==
    /\ loads = 2
    /\ freshlyLoaded
    /\ Len(classes) > 0
    /\ call = Loaded

\* C10: a step that is neither the choice of a file nor the completion of a
\* load leaves the class map, the roots and the displayed roots as they are.
IndexImmutable ==
    [][readers' = readers =>
          UNCHANGED <<ontologyData, rootNodes, file, result, loads>>]_vars

\* A loaded index, unchanged since its parse, after nodes were expanded and
\* selected, a search term typed and hasMatchingChild called.
IndexImmutableWitness ==
    /\ ~IsNull(ontologyData)
    /\ ontologyData = Some(parseOWL(loadedDoc))
    /\ rootNodes = ontologyData[1].roots
    /\ expandedNodes # {}
    /\ ~IsNull(selectedNode)
    /\ searchTerm # <<>>
    /\ call.op = "hasMatchingChild"

\* C11: in every state every id of the expanded set is a key of the loaded
\* class map whose class has children, and the selected node is absent or
\* is the class the loaded class map holds under its id.
ViewStateWithinIndex ==
    /\ \A id \in expandedNodes :
           declared(id) /\ Len(classOf(id).children) > 0
    /\ IsNull(selectedNode) \/
           (declared(selectedNode[1].id) /\
            classOf(selectedNode[1].id) = selectedNode[1])

\* After a second load: two classes expanded, one of them the parent of the
\* selected class, which is itself not expanded.
ViewStateWithinIndexWitness ==
    /\ loads = 2
    /\ Cardinality(expandedNodes) > 1
    /\ ~IsNull(selectedNode)
    /\ selectedNode[1].id \notin expandedNodes
    /\ \E p \in Range(selectedNode[1].parents) : p \in expandedNodes

====
